---- MODULE Spec2Model ----
(***************************************************************************)
(* A model of the attribute <-> control synchronisation of orangewidget's  *)
(* gui.py: OWComponent.__setattr__, connectControl, the call-backs and     *)
(* call-fronts with their `disabled` reentrancy counters, the spin box's   *)
(* deferred commit, the check box Disabler, and the @deferred /            *)
(* gui.auto_commit protocol.                                               *)
(*                                                                         *)
(* Python calls are synchronous and nested, so the model keeps an explicit *)
(* call stack; one action executes one frame.  A Qt signal emission puts   *)
(* one frame per connected slot on the stack, each followed by a "slotend" *)
(* frame: an exception raised inside a slot does not cross the emission.   *)
(***************************************************************************)
EXTENDS Integers, Sequences, FiniteSets, TLC

(***************************************************************************)
(* Bounds of the model.                                                    *)
(***************************************************************************)
MaxVal == 3          \* attribute integers are 0..MaxVal
Minv == 1            \* the spin box's range, minv..maxv, inside 0..MaxVal
Maxv == 2
MaxChain == 6        \* the longest chain of call-back / call-front calls seen
NWidgets == 2        \* the length of a check box's `disables` list

(***************************************************************************)
(* Python values: int (bool is an int: False = 0, True = 1), str, None.    *)
(***************************************************************************)
I(n) == [t |-> "int", i |-> n]
S(s) == [t |-> "str", s |-> s]
None == [t |-> "none"]

IsInt(v) == v.t = "int"
IsStr(v) == v.t = "str"

Ints == {I(n) : n \in 0..MaxVal}
Bools == {I(0), I(1)}

\* Python truth value: `not value`
Truthy(v) == CASE v.t = "none" -> FALSE
               [] v.t = "int" -> v.i # 0
               [] v.t = "str" -> v.s # ""

Digits == <<"0", "1", "2", "3", "4", "5", "6", "7", "8", "9">>

\* str(value)
PyStr(v) == CASE v.t = "none" -> "None"
              [] v.t = "int" -> Digits[v.i + 1]
              [] v.t = "str" -> v.s

\* The texts a user can type into a line edit.
Texts == {"", "-", "0", "2", "01", "x"}

\* int(text) is defined on decimal literals only.
IntLiterals == {"0", "1", "2", "3", "01"}
PyInt(s) == CASE s = "0" -> 0
              [] s = "1" -> 1
              [] s = "01" -> 1
              [] s = "2" -> 2
              [] s = "3" -> 3

\* The labels (values) of a labeled slider: position k shows Lookup[k + 1].
Lookup == <<I(2), I(0), I(1)>>

\* lookup.index(v): the first position holding v; ValueError when there is none
InLookup(v) == \E k \in 1..Len(Lookup) : Lookup[k] = v
LookupIndex(v) == (CHOOSE k \in 1..Len(Lookup) :
                      Lookup[k] = v /\ \A j \in 1..(k - 1) : Lookup[j] # v) - 1

\* QSpinBox.setValue keeps the value inside the range
Clamp(n) == IF n < Minv THEN Minv ELSE IF n > Maxv THEN Maxv ELSE n

Kinds == {"spin", "check", "line", "lslider"}

VARIABLES
  kind,          \* which gui function built the control
  callback,      \* the function call-back's function: "none" when there
                 \* is none, else "user" or "checkbox_toggled"
  func,          \* ControlledCallback.func: "none", "int", "str", "NoneType"
  attr,          \* the master's bound attribute
  shown,         \* what the control displays (value, check state, text, position)
  cfDis,         \* ControlledCallFront.disabled
  cbDis,         \* ControlledCallback.disabled (the value call-back)
  cfuncDis,      \* FunctionCallback.disabled
  stack,         \* the Python call stack, top first
  exc,           \* an exception is propagating
  mouseHeld, textEditing, preDragValue, preEditvalue,   \* SpinBoxMixin
  op,            \* the operation in progress or last completed, and its input
  calls,         \* call-back and call-front invocations of the operation
  commits,       \* SpinBoxMixin.__commitValue calls of the operation
  cbRuns,        \* runs of the call-back's function in the operation
  cbWrote,       \* the user callback wrote the attribute in the operation
  attr0,         \* the attribute when the operation began
  wasEditing,    \* a spin box edit was in progress when the operation began
  editStart,     \* the spin box's value when the current edit began
  raised,        \* the operation ended by raising to its caller
  cboxEnabled,   \* the check box's isEnabled()
  wDisabled,     \* for each widget of cbox.disables: it is disabled
  connected,     \* the control is built and connectControl has connected it
  decorated,     \* the master's commit method is decorated with @deferred
  acDone,        \* gui.auto_commit has run
  dirty,         \* DeferredData.dirty, or auto_commit's `dirty` cell
  commit_depth,  \* DeferredData.commit_depth
  btnEnabled,    \* the commit button's isEnabled()
  held,          \* the commit.now / commit.deferred thunks obtained so far
  ran,           \* do_commit's calls of the original commit in the operation
  directCalls,   \* direct calls of the decorated method made inside a commit
  directRuns,    \* runs of the underlying function those calls started
  commitRaised,  \* the original commit raised in the operation
  dirty0,        \* the dirty flag when the operation began
  tpc,           \* each thread's position in Deferred.call
  ttmp,          \* each thread's loaded value of commit_depth
  tleft,         \* the commits each thread has yet to start
  wrote,         \* the program has written the attribute since auto_commit
  failed,        \* an original commit has raised since auto_commit
  wfo,           \* the line edit is a LineEditWFocusOut
  leCallback,    \* LineEditWFocusOut.callback is given
  changed,       \* LineEditWFocusOut.__changed
  focused,       \* the line edit has the keyboard focus
  edited,        \* the user has edited the text since the last focus-in,
                 \* programmatic setText or callback
  edited0,       \* `edited` when the operation began
  timerActive,   \* DelayedNotification._timer is running
  did_notify,    \* DelayedNotification._did_notify
  last_value,    \* DelayedNotification._last_value
  last_notified, \* DelayedNotification._last_notified
  sent,          \* the arguments current at the latest emissions of
                 \* `notification`, the latest first, at most two
  emitted        \* the last notify_immediately emitted `notification`

cfgVars == <<kind, callback, func>>
hasCb == callback # "none"
ctlVars == <<attr, shown>>
guardVars == <<cfDis, cbDis, cfuncDis>>
spinVars == <<mouseHeld, textEditing, preDragValue, preEditvalue>>
opVars == <<op, attr0, wasEditing, dirty0>>
cntVars == <<calls, commits, cbRuns, cbWrote>>
cmtCnt == <<ran, directCalls, directRuns, commitRaised>>
disVars == <<cboxEnabled, wDisabled>>
commitVars == <<connected, decorated, acDone, dirty, commit_depth, btnEnabled,
               held>>
thrVars == <<tpc, ttmp, tleft>>
histVars == <<wrote, failed>>
leVars == <<wfo, leCallback, changed, focused, edited, edited0>>
dnVars == <<timerActive, did_notify, last_value, last_notified, sent, emitted>>
vars == <<cfgVars, ctlVars, guardVars, stack, exc, spinVars, opVars, cntVars,
          cmtCnt, editStart, raised, disVars, commitVars, thrVars, histVars, leVars, dnVars>>

Frame(pc, v) == [pc |-> pc, v |-> v]
Top == Head(stack)
Quiet == stack = <<>> /\ ~exc
Running(pc) == stack # <<>> /\ ~exc /\ Top.pc = pc
\* replace the running frame by the frames fs
Replace(fs) == stack' = fs \o Tail(stack)
Return == stack' = Tail(stack)

Op(k, v) == [k |-> k, v |-> v]
\* a top-level operation starts: the per-operation counters are reset
Begin(k, v) ==
  /\ op' = Op(k, v)
  /\ calls' = 0 /\ commits' = 0 /\ cbRuns' = 0 /\ cbWrote' = FALSE
  /\ attr0' = attr /\ raised' = FALSE
  /\ wasEditing' = (mouseHeld \/ textEditing)
  /\ ran' = 0 /\ directCalls' = 0 /\ directRuns' = 0 /\ commitRaised' = FALSE
  /\ dirty0' = dirty

\* a __setattr__ that stores the value and calls no call-front
SetAttrStoresOnly ==
  /\ Running("setattr")
  /\ attr' = Top.v
  /\ Return
  /\ UNCHANGED <<cfgVars, shown, guardVars, exc, spinVars, opVars, cntVars,
                 editStart, raised, disVars,
                 cmtCnt, commitVars, thrVars, histVars, leVars, dnVars>>

(***************************************************************************)
(* OWComponent.__setattr__: store the value, then call every call-front    *)
(* connected to the attribute (connectControl connects exactly one, when   *)
(* the control is built).                                                  *)
(***************************************************************************)
SetAttr ==
  /\ Running("setattr")
  /\ attr' = Top.v
  /\ IF connected THEN Replace(<<Frame("cfront", Top.v)>>) ELSE Return
  /\ UNCHANGED <<cfgVars, shown, guardVars, exc, spinVars, opVars, cntVars,
                 editStart, raised, disVars,
                 cmtCnt, commitVars, thrVars, histVars, leVars, dnVars>>

\* a call-front without the reentrancy guard: it neither tests `disabled`
\* nor disables its opposites
CallFrontUnguarded ==
  /\ Running("cfront")
  /\ calls' = calls + 1
  /\ Replace(<<Frame("action", Top.v)>>)
  /\ UNCHANGED <<cfgVars, ctlVars, guardVars, exc, spinVars, opVars, commits,
                 cbRuns, cbWrote, editStart, raised, disVars,
                 cmtCnt, commitVars, thrVars, histVars, leVars, dnVars>>

(***************************************************************************)
(* ControlledCallFront.__call__.  connectControl sets cfront.opposite to   *)
(* (cback, cfunc) only when there is a function call-back.                 *)
(***************************************************************************)
CallFront ==
  /\ Running("cfront")
  /\ calls' = calls + 1
  /\ IF cfDis # 0
       THEN Return /\ UNCHANGED guardVars
       ELSE IF hasCb
         THEN /\ cbDis' = cbDis + 1
              /\ cfuncDis' = cfuncDis + 1
              /\ UNCHANGED cfDis
              /\ Replace(<<Frame("action", Top.v), Frame("cfront_fin", None)>>)
         ELSE /\ Replace(<<Frame("action", Top.v)>>)
              /\ UNCHANGED guardVars
  /\ UNCHANGED <<cfgVars, ctlVars, exc, spinVars, opVars, commits, cbRuns,
                 cbWrote, editStart, raised, disVars,
                 cmtCnt, commitVars, thrVars, histVars, leVars, dnVars>>

\* a call-front that decrements after the action instead of in `finally`
CallFrontWithoutFinally ==
  /\ stack # <<>> /\ Top.pc = "cfront_fin"
  /\ cbDis' = IF exc THEN cbDis ELSE cbDis - 1
  /\ cfuncDis' = IF exc THEN cfuncDis ELSE cfuncDis - 1
  /\ Return
  /\ UNCHANGED <<cfgVars, ctlVars, cfDis, exc, spinVars, opVars, cntVars,
                 editStart, raised, disVars,
                 cmtCnt, commitVars, thrVars, histVars, leVars, dnVars>>

\* the `finally` of ControlledCallFront.__call__; it also runs while an
\* exception propagates
CallFrontFinally ==
  /\ stack # <<>> /\ Top.pc = "cfront_fin"
  /\ cbDis' = cbDis - 1
  /\ cfuncDis' = cfuncDis - 1
  /\ Return
  /\ UNCHANGED <<cfgVars, ctlVars, cfDis, exc, spinVars, opVars, cntVars,
                 editStart, raised, disVars,
                 cmtCnt, commitVars, thrVars, histVars, leVars, dnVars>>

\* The slots connected to the control's change signal, in connection order,
\* each followed by the end of its invocation.
Slot(pc, x) == <<Frame(pc, x), Frame("slotend", None)>>
SignalSlots(x) ==
  CASE kind = "spin" -> Slot("onValueChanged", x)
    [] kind = "check" -> Slot("cback", x)
                          \o (IF hasCb THEN Slot("cfunc", None) ELSE <<>>)
                          \o Slot("disabler", <<x>>)
    [] kind = "line" -> Slot("cback", x)
                         \o (IF hasCb THEN Slot("cfunc", None) ELSE <<>>)
    [] kind = "lslider" -> Slot("cback_ls", x)
                            \o (IF hasCb THEN Slot("cfunc", None) ELSE <<>>)

\* What the control displays once it has been set to show v, and whether the
\* call-front's action can show v at all (ActionRaises: it raises instead).
ActionSkips(v) == kind # "line" /\ v = None
ActionRaises(v) == kind = "lslider" /\ ~InLookup(v)
Display(v) ==
  CASE kind = "spin" -> I(Clamp(v.i))
    [] kind = "check" -> I(v.i)
    [] kind = "line" -> S(PyStr(v))
    [] kind = "lslider" -> I(LookupIndex(v))

(***************************************************************************)
(* CallFront*.action: CallFrontSpin, CallFrontCheckBox, CallFrontLineEdit, *)
(* CallFrontLabeledSlider.  Qt emits the change signal only when the       *)
(* displayed value changes.                                                *)
(***************************************************************************)
Action ==
  /\ Running("action")
  /\ IF ActionSkips(Top.v)
       THEN Return /\ UNCHANGED <<shown, exc>>
       ELSE IF ActionRaises(Top.v)
         THEN Return /\ exc' = TRUE /\ UNCHANGED shown
         ELSE /\ shown' = Display(Top.v)
              /\ UNCHANGED exc
              /\ IF shown' # shown
                   THEN Replace(SignalSlots(shown'))
                   ELSE Return
  \* LineEditWFocusOut.setText
  /\ changed' = IF wfo THEN FALSE ELSE changed
  /\ edited' = IF wfo THEN FALSE ELSE edited
  /\ UNCHANGED <<cfgVars, attr, guardVars, spinVars, opVars, cntVars,
                 editStart, raised, disVars,
                 cmtCnt, commitVars, thrVars, histVars,
                 wfo, leCallback, focused, edited0, dnVars>>

\* the end of one slot's invocation: an exception raised in the slot is
\* reported there and does not reach the emitter
SlotEnd ==
  /\ stack # <<>> /\ Top.pc = "slotend"
  /\ exc' = FALSE
  /\ Return
  /\ UNCHANGED <<cfgVars, ctlVars, guardVars, spinVars, opVars, cntVars,
                 editStart, raised, disVars,
                 cmtCnt, commitVars, thrVars, histVars, leVars, dnVars>>

(***************************************************************************)
(* ControlledCallback.acyclic_setattr's conversion of the signal's value.  *)
(* func in (int, float) and (not value or value in "+-") gives func(0).    *)
(***************************************************************************)
SignStrings == {"", "+", "-", "+-"}
ConvZero(f, v) == f = "int" /\ (~Truthy(v) \/ (IsStr(v) /\ v.s \in SignStrings))
ConvRaises(f, v) ==
  CASE f = "none" -> FALSE
    [] f = "str" -> FALSE
    [] f = "NoneType" -> TRUE
    [] f = "int" -> ~ConvZero(f, v) /\ IsStr(v) /\ v.s \notin IntLiterals
Conv(f, v) ==
  CASE f = "none" -> v
    [] f = "str" -> S(PyStr(v))
    [] f = "int" -> IF ConvZero(f, v) THEN I(0)
                    ELSE IF IsStr(v) THEN I(PyInt(v.s)) ELSE v

(***************************************************************************)
(* ValueCallback.__call__ and ControlledCallback.acyclic_setattr, with     *)
(* disable_opposite around the setattr.                                    *)
(***************************************************************************)
CallBack ==
  /\ Running("cback")
  /\ calls' = calls + 1
  /\ IF Top.v = None \/ cbDis # 0
       THEN Return /\ UNCHANGED <<cfDis, exc>>
       ELSE IF ConvRaises(func, Top.v)
         THEN Return /\ exc' = TRUE /\ UNCHANGED cfDis
         ELSE /\ cfDis' = cfDis + 1
              /\ Replace(<<Frame("setattr", Conv(func, Top.v)),
                           Frame("cback_fin", None)>>)
              /\ UNCHANGED exc
  /\ UNCHANGED <<cfgVars, ctlVars, cbDis, cfuncDis, spinVars, opVars, commits,
                 cbRuns, cbWrote, editStart, raised, disVars,
                 cmtCnt, commitVars, thrVars, histVars, leVars, dnVars>>

\* the `finally` of disable_opposite
CallBackFinally ==
  /\ stack # <<>> /\ Top.pc = "cback_fin"
  /\ cfDis' = cfDis - 1
  /\ Return
  /\ UNCHANGED <<cfgVars, ctlVars, cbDis, cfuncDis, exc, spinVars, opVars,
                 cntVars, editStart, raised, disVars,
                 cmtCnt, commitVars, thrVars, histVars, leVars, dnVars>>

\* CallBackLabeledSlider.__call__: the attribute gets the label at the
\* slider's position, by master.__setattr__, without disable_opposite.
CallBackLabeledSlider ==
  /\ Running("cback_ls")
  /\ calls' = calls + 1
  /\ IF cbDis = 0
       THEN Replace(<<Frame("setattr", Lookup[shown.i + 1])>>)
       ELSE Return
  /\ UNCHANGED <<cfgVars, ctlVars, guardVars, exc, spinVars, opVars, commits,
                 cbRuns, cbWrote, editStart, raised, disVars,
                 cmtCnt, commitVars, thrVars, histVars, leVars, dnVars>>

\* FunctionCallback.__call__
FunctionCallback ==
  /\ Running("cfunc")
  /\ calls' = calls + 1
  /\ IF cfuncDis = 0
       THEN Replace(<<Frame(callback, None)>>)
       ELSE Return
  /\ UNCHANGED <<cfgVars, ctlVars, guardVars, exc, spinVars, opVars, commits,
                 cbRuns, cbWrote, editStart, raised, disVars,
                 cmtCnt, commitVars, thrVars, histVars, leVars, dnVars>>

\* The values a program writes to the attribute of each kind of control.
WriteVals ==
  CASE kind = "spin" -> Ints \cup {None}
    [] kind = "check" -> Bools \cup {None}
    [] kind = "line" -> {I(1), I(2), S("x"), None}
    [] kind = "lslider" -> Ints \cup {None}

\* The user's callback: it returns, or it writes the bound attribute first.
UserCallbackReturns ==
  /\ Running("user")
  /\ cbRuns' = cbRuns + 1
  /\ Return
  /\ UNCHANGED <<cfgVars, ctlVars, guardVars, exc, spinVars, opVars, calls,
                 commits, cbWrote, editStart, raised, disVars,
                 cmtCnt, commitVars, thrVars, histVars, leVars, dnVars>>

UserCallbackWrites ==
  /\ Running("user")
  /\ cbRuns' = cbRuns + 1
  /\ cbWrote' = TRUE
  /\ \E w \in WriteVals : Replace(<<Frame("setattr", w)>>)
  /\ UNCHANGED <<cfgVars, ctlVars, guardVars, exc, spinVars, opVars, calls,
                 commits, editStart, raised, disVars,
                 cmtCnt, commitVars, thrVars, histVars, leVars, dnVars>>

\* an exception leaves a frame that has no handler
Unwind ==
  /\ stack # <<>> /\ exc
  /\ Top.pc \notin {"cfront_fin", "cback_fin", "slotend", "call_fin"}
  /\ Return
  /\ UNCHANGED <<cfgVars, ctlVars, guardVars, exc, spinVars, opVars, cntVars,
                 editStart, raised, disVars,
                 cmtCnt, commitVars, thrVars, histVars, leVars, dnVars>>

\* the exception reaches the code that wrote the attribute
RaiseToCaller ==
  /\ stack = <<>> /\ exc
  /\ exc' = FALSE
  /\ raised' = TRUE
  /\ UNCHANGED <<cfgVars, ctlVars, guardVars, stack, spinVars, opVars, cntVars,
                 editStart, disVars,
                 cmtCnt, commitVars, thrVars, histVars, leVars, dnVars>>

(***************************************************************************)
(* Disabler.__call__ with propagateState = True and type = DISABLER, for   *)
(* a `disables` list of plain widgets; args are the call's arguments.      *)
(***************************************************************************)
DisablerDisabled(args) ==
  IF cboxEnabled
    THEN IF Len(args) > 0 THEN ~Truthy(args[1]) ELSE ~Truthy(attr)
    ELSE TRUE

Disabler ==
  /\ Running("disabler")
  /\ wDisabled' = [w \in DOMAIN wDisabled |-> DisablerDisabled(Top.v)]
  /\ Return
  /\ UNCHANGED <<cfgVars, ctlVars, guardVars, exc, spinVars, opVars, cntVars,
                 editStart, raised, cboxEnabled,
                 cmtCnt, commitVars, thrVars, histVars, leVars, dnVars>>

(***************************************************************************)
(* SpinBoxMixin: __onValueChanged, __commitValue, __onEditingFinished.     *)
(***************************************************************************)
OnValueChanged ==
  /\ Running("onValueChanged")
  /\ IF ~mouseHeld /\ ~textEditing
       THEN Replace(<<Frame("commitValue", Top.v)>>)
       ELSE Return
  /\ UNCHANGED <<cfgVars, ctlVars, guardVars, exc, spinVars, opVars, cntVars,
                 editStart, raised, disVars,
                 cmtCnt, commitVars, thrVars, histVars, leVars, dnVars>>

\* gui.spin connects valueCommitted to the call-back only when there is no
\* user callback, and stores both call-backs in sbox.cback and sbox.cfunc.
CommitValue ==
  /\ Running("commitValue")
  /\ commits' = commits + 1
  /\ Replace((IF hasCb THEN <<>> ELSE Slot("cback", Top.v))
             \o <<Frame("cback", Top.v)>>
             \o (IF hasCb THEN <<Frame("cfunc", None)>> ELSE <<>>))
  /\ UNCHANGED <<cfgVars, ctlVars, guardVars, exc, spinVars, opVars, calls,
                 cbRuns, cbWrote, editStart, raised, disVars,
                 cmtCnt, commitVars, thrVars, histVars, leVars, dnVars>>

\* when both flags are set the second `if` overwrites initialValue
InitialValue == IF textEditing THEN preEditvalue ELSE preDragValue

OnEditingFinished ==
  /\ Running("onEditingFinished")
  /\ IF ~mouseHeld /\ ~textEditing
       THEN Return /\ UNCHANGED spinVars
       ELSE /\ mouseHeld' = FALSE
            /\ textEditing' = FALSE
            /\ UNCHANGED <<preDragValue, preEditvalue>>
            /\ IF InitialValue # shown.i
                 THEN Replace(<<Frame("commitValue", shown)>>)
                 ELSE Return
  /\ UNCHANGED <<cfgVars, ctlVars, guardVars, exc, opVars, cntVars,
                 editStart, raised, disVars,
                 cmtCnt, commitVars, thrVars, histVars, leVars, dnVars>>

(***************************************************************************)
(* The operations: a program writes the attribute, the user acts on the    *)
(* control.  Each starts when the previous one has returned.               *)
(***************************************************************************)
Write(v) ==
  /\ Quiet
  /\ Begin("write", v)
  /\ stack' = <<Frame("setattr", v)>>
  /\ wrote' = TRUE
  /\ UNCHANGED <<cfgVars, ctlVars, guardVars, exc, spinVars, editStart, disVars,
                 commitVars, thrVars, failed, leVars, dnVars>>

\* the user changes the control to display d; Qt emits the change signal
UserChange(d) ==
  /\ Quiet /\ connected
  /\ d # shown
  /\ shown' = d
  /\ Begin("user", d)
  /\ stack' = SignalSlots(d)
  /\ UNCHANGED <<cfgVars, attr, guardVars, exc, spinVars, editStart, disVars,
                 commitVars, thrVars, histVars, leVars, dnVars>>

UserToggle == kind = "check" /\ cboxEnabled /\ UserChange(I(1 - shown.i))
UserType == kind = "line" /\ \E s \in Texts : UserChange(S(s))
UserSlide == kind = "lslider" /\ \E k \in 1..Len(Lookup) : UserChange(I(k - 1))

\* the program enables or disables the check box
SetEnabled ==
  /\ Quiet /\ kind = "check"
  /\ cboxEnabled' = ~cboxEnabled
  /\ UNCHANGED <<cfgVars, ctlVars, guardVars, stack, exc, spinVars, opVars,
                 cntVars, editStart, raised, wDisabled,
                 cmtCnt, commitVars, thrVars, histVars, leVars, dnVars>>

(***************************************************************************)
(* SpinBoxMixin.eventFilter, followed by Qt's own handling of the event.   *)
(* n is the value the spin box displays afterwards.                        *)
(***************************************************************************)
SpinRange == Minv..Maxv
Editing == mouseHeld \/ textEditing
\* Qt changes the displayed value and emits valueChanged
QtSetValue(n) ==
  /\ shown' = I(n)
  /\ stack' = IF I(n) # shown THEN Slot("onValueChanged", I(n)) ELSE <<>>

\* MouseButtonPress; a press on an arrow button steps the value
MousePress ==
  /\ Quiet /\ kind = "spin"
  /\ \E n \in SpinRange : QtSetValue(n) /\ Begin("press", I(n))
  /\ preDragValue' = shown.i
  /\ mouseHeld' = TRUE
  /\ editStart' = IF Editing THEN editStart ELSE shown
  /\ UNCHANGED <<cfgVars, attr, guardVars, exc, textEditing, preEditvalue,
                 disVars,
                 commitVars, thrVars, histVars, leVars, dnVars>>

\* MouseMove while the button is held: setValue(preDragValue + valueOffset)
MouseMove ==
  /\ Quiet /\ kind = "spin"
  /\ mouseHeld
  /\ \E n \in SpinRange : QtSetValue(n) /\ Begin("move", I(n))
  /\ UNCHANGED <<cfgVars, attr, guardVars, exc, spinVars, editStart, disVars,
                 commitVars, thrVars, histVars, leVars, dnVars>>

\* MouseButtonRelease calls __onEditingFinished
MouseRelease ==
  /\ Quiet /\ kind = "spin"
  /\ Begin("release", shown)
  /\ stack' = Slot("onEditingFinished", None)
  /\ UNCHANGED <<cfgVars, ctlVars, guardVars, exc, spinVars, editStart, disVars,
                 commitVars, thrVars, histVars, leVars, dnVars>>

\* KeyPress or KeyRelease: ignored during click-and-drag, else it starts
\* text editing; Qt then applies the key
KeyEvent ==
  /\ Quiet /\ kind = "spin"
  /\ IF mouseHeld
       THEN /\ Begin("key", shown)
            /\ UNCHANGED <<shown, stack, spinVars, editStart>>
       ELSE /\ \E n \in SpinRange : QtSetValue(n) /\ Begin("key", I(n))
            /\ preEditvalue' = IF textEditing THEN preEditvalue ELSE shown.i
            /\ textEditing' = TRUE
            /\ editStart' = IF Editing THEN editStart ELSE shown
            /\ UNCHANGED <<mouseHeld, preDragValue>>
  /\ UNCHANGED <<cfgVars, attr, guardVars, exc, disVars,
                 commitVars, thrVars, histVars, leVars, dnVars>>

\* Qt's editingFinished signal (Return was pressed, or the focus left)
EditingFinished ==
  /\ Quiet /\ kind = "spin"
  /\ Begin("finish", shown)
  /\ stack' = Slot("onEditingFinished", None)
  /\ UNCHANGED <<cfgVars, ctlVars, guardVars, exc, spinVars, editStart, disVars,
                 commitVars, thrVars, histVars, leVars, dnVars>>

(***************************************************************************)
(* The state after the gui function has built and connected the control.   *)
(***************************************************************************)
AttrName == "attr"
\* lineEdit: fvcb = valueType or type(current_value), without a valueType
TypeOf(v) == CASE v.t = "int" -> "int" [] v.t = "str" -> "str"
               [] v.t = "none" -> "NoneType"
InitVals(k) ==
  CASE k = "spin" -> {I(Minv)}
    [] k = "check" -> Bools
    [] k = "line" -> {I(0), S(""), None}
    [] k = "lslider" -> {Lookup[1]}

\* nothing is running, no edit is in progress, nothing has been counted
InitIdle ==
  /\ cfDis = 0 /\ cbDis = 0 /\ cfuncDis = 0
  /\ stack = <<>> /\ exc = FALSE
  /\ mouseHeld = FALSE /\ textEditing = FALSE
  /\ preDragValue = 0 /\ preEditvalue = 0
  /\ op = Op("init", attr) /\ attr0 = attr /\ wasEditing = FALSE
  /\ dirty0 = FALSE
  /\ calls = 0 /\ commits = 0 /\ cbRuns = 0 /\ cbWrote = FALSE
  /\ ran = 0 /\ directCalls = 0 /\ directRuns = 0 /\ commitRaised = FALSE
  /\ raised = FALSE
  /\ cboxEnabled = TRUE
  /\ wrote = FALSE /\ failed = FALSE

InitControl ==
  /\ attr \in InitVals(kind)
  /\ func = IF kind = "line" THEN TypeOf(attr) ELSE "none"
  /\ shown = Display(attr)
  /\ editStart = shown
  /\ InitIdle
  \* checkBox ends with cbox.makeConsistent(value): value is the attribute's name
  /\ wDisabled = IF kind = "check"
                    THEN [w \in 1..NWidgets |-> DisablerDisabled(<<S(AttrName)>>)]
                    ELSE <<>>
  /\ connected = TRUE

\* no auto_commit, no decorated commit method
NoCommit ==
  /\ decorated = FALSE /\ acDone = FALSE
  /\ dirty = FALSE /\ commit_depth = 0
  /\ btnEnabled = FALSE /\ held = {}

\* the control is no LineEditWFocusOut
NoFocusOut ==
  /\ wfo = FALSE /\ leCallback = FALSE /\ changed = FALSE
  /\ focused = FALSE /\ edited = FALSE /\ edited0 = FALSE

\* a DelayedNotification after __init__
InitNotification ==
  /\ timerActive = FALSE
  /\ did_notify = FALSE
  /\ last_value = None /\ last_notified = None
  /\ sent = <<>> /\ emitted = FALSE

\* no thread is committing
NoThreads ==
  /\ tpc = <<>> /\ ttmp = <<>> /\ tleft = <<>>

InitBind ==
  /\ kind \in Kinds
  /\ callback \in {"none", "user"}
  /\ InitControl
  /\ NoCommit
  /\ NoThreads
  /\ NoFocusOut
  /\ InitNotification

Step ==
  \/ SetAttr \/ CallFront \/ CallFrontFinally \/ Action \/ SlotEnd
  \/ CallBack \/ CallBackFinally \/ CallBackLabeledSlider \/ FunctionCallback
  \/ UserCallbackReturns \/ UserCallbackWrites \/ RaiseToCaller
  \/ Disabler \/ OnValueChanged \/ CommitValue \/ OnEditingFinished

WriteAttr == \E v \in WriteVals : Write(v)

NextBind ==
  \/ Step
  \/ WriteAttr
  \/ UserToggle \/ UserType \/ UserSlide \/ SetEnabled
  \/ MousePress \/ MouseMove \/ MouseRelease \/ KeyEvent \/ EditingFinished

SpecBind == InitBind /\ [][NextBind]_vars

(***************************************************************************)
(* Claims about the bindVars.                                               *)
(***************************************************************************)
\* the control displays the value v
Displays(v) ==
  CASE kind = "spin" -> IsInt(v) /\ shown = v
    [] kind = "check" -> IsInt(v) /\ shown = I(IF Truthy(v) THEN 1 ELSE 0)
    [] kind = "line" -> shown = S(PyStr(v))
    [] kind = "lslider" -> InLookup(v) /\ Lookup[shown.i + 1] = v

\* the control is able to display v: v is not None (a line edit shows any
\* value's str), inside the spin box's range, one of the slider's labels
Representable(v) ==
  CASE kind = "spin" -> IsInt(v) /\ v.i \in SpinRange
    [] kind = "check" -> v \in Bools
    [] kind = "line" -> TRUE
    [] kind = "lslider" -> InLookup(v)

WriteDone == Quiet /\ op.k = "write"

\* C1 as stated: after the attribute has been set to any value v and the
\* callbacks have returned, the control displays v.
C1_AnyValueDisplayed == WriteDone => Displays(op.v)

\* C1, amended: after the attribute has been set to a value v the control can
\* display (not None, inside the spin box's range, one of the slider's
\* labels) and the callbacks have returned, the control displays v, after any
\* sequence of attribute writes and user changes.
C1_RepresentableValueDisplayed ==
  (WriteDone /\ Representable(op.v)) => Displays(op.v)

C1_Witness ==
  /\ WriteDone /\ Representable(op.v) /\ Displays(op.v)
  /\ attr0 # op.v /\ calls > 0 /\ kind = "spin" /\ attr = op.v

\* the control's change signal has fired with the value op.v in the last
\* operation (a spin box's valueCommitted fires when the edit is finished)
SignalDone ==
  /\ Quiet
  /\ \/ op.k = "user"
     \/ op.k \in {"finish", "release"} /\ commits > 0

\* The value the attribute is to hold for the signal's value x: x itself, the
\* label at position x of a labeled slider, and for a line edit the text
\* converted to valueType or else to the type of the attribute's value, left
\* a string when that value is None (lineEdit's docstring).
Promised(x) ==
  CASE kind \in {"spin", "check"} -> x
    [] kind = "lslider" -> Lookup[x.i + 1]
    [] kind = "line" -> IF func = "int" THEN Conv("int", x) ELSE x

\* C2: once the handlers of a user's change of the control (signal value x,
\* not None) have returned, the attribute holds x after the conversion, for
\* every kind of control; a text int() rejects and a user callback that
\* writes the attribute itself are left out.
C2_AttributeHoldsSignalValue ==
  (SignalDone /\ ~cbWrote /\ ~(func = "int" /\ ConvRaises("int", op.v)))
    => attr = Promised(op.v)

\* the same, leaving out the line edit of an attribute that is None
C2_ExceptNoneTypeLineEdit ==
  (SignalDone /\ ~cbWrote /\ ~ConvRaises(func, op.v)) => attr = Promised(op.v)

\* C3: a single attribute write or a single user change of the control
\* triggers at most MaxChain call-front and call-back invocations, whatever
\* the control, the value and the user callback, and the chain never stalls
\* before every call has returned.
C3_FiniteChain == calls <= MaxChain /\ (~Quiet => ENABLED Step)

C3_Witness == Quiet /\ calls = MaxChain /\ cbWrote /\ op.k = "user"

\* C9: while the check box is enabled, each widget of its `disables` list is
\* disabled exactly when the check box is unchecked, from construction on.
C9_DisablesFollowCheckBox ==
  (kind = "check" /\ Quiet /\ cboxEnabled)
    => \A w \in DOMAIN wDisabled : wDisabled[w] = (shown = I(0))

\* C10: an edit of the spin box by keyboard or click-and-drag commits none
\* of its intermediate values (no __commitValue, no callback, the attribute
\* unchanged); when the edit finishes, the value is committed once if and
\* only if it differs from the value displayed when the edit began, and
\* mouseHeld and textEditing are false.
EditOps == {"press", "move", "key"}
FinishOps == {"finish", "release"}
C10_SpinCommitsWhenEditFinishes ==
  /\ (Quiet /\ op.k \in EditOps)
       => (commits = 0 /\ cbRuns = 0 /\ attr = attr0)
  /\ (Quiet /\ op.k \in FinishOps) => (~mouseHeld /\ ~textEditing)
  /\ (Quiet /\ op.k \in FinishOps /\ ~cbWrote)
       => /\ commits = IF wasEditing /\ shown # editStart THEN 1 ELSE 0
          /\ cbRuns = IF hasCb THEN commits ELSE 0
          /\ (commits = 1 => attr = shown)

\* setattr (super().__setattr__ in OWComponent.__setattr__) raises, as the
\* setter of a property of the master can: nothing is stored, no call-front
\* is called
SetAttrRaises ==
  /\ Running("setattr")
  /\ exc' = TRUE
  /\ Return
  /\ UNCHANGED <<cfgVars, ctlVars, guardVars, spinVars, opVars, cntVars,
                 editStart, raised, disVars,
                 cmtCnt, commitVars, thrVars, histVars, leVars, dnVars>>

\* the binding of a master whose setter can raise
NextGuards == NextBind \/ SetAttrRaises
SpecGuards == InitBind /\ [][NextGuards]_vars

\* C14: the `disabled` counter of the call-front, of the value call-back and
\* of the function call-back is never negative, and all three are 0 whenever
\* no call is running, also after a write or a signal in which the control's
\* action, the conversion or the setter raised.
C14_GuardsBalanced ==
  /\ cfDis >= 0 /\ cbDis >= 0 /\ cfuncDis >= 0
  /\ (stack = <<>>) => (cfDis = 0 /\ cbDis = 0 /\ cfuncDis = 0)

\* a write to a labeled slider with a user callback has raised out of the
\* call-front's action, after the call-front had disabled its opposites
C14_Witness ==
  /\ Quiet /\ raised /\ op.k = "write" /\ kind = "lslider" /\ hasCb
  /\ calls > 0 /\ cfDis = 0 /\ cbDis = 0 /\ cfuncDis = 0

(***************************************************************************)
(* gui.auto_commit and @gui.deferred.  The auto-commit flag is the bound   *)
(* attribute of a check box whose callback is checkbox_toggled; auto_commit *)
(* is called without a callback of its own.                                *)
(***************************************************************************)
\* the overridden commit methods below the widget's own that are decorated
MaxSuper == 1

bindVars == <<guardVars, spinVars, editStart, cboxEnabled>>

\* a checkbox_toggled that commits whenever auto-commit is switched on
CheckboxToggledIgnoresDirty ==
  /\ Running("checkbox_toggled")
  /\ cbRuns' = cbRuns + 1
  /\ IF Truthy(attr)
       THEN /\ btnEnabled' = FALSE
            /\ Replace(<<Frame("do_commit", None)>>)
       ELSE /\ btnEnabled' = TRUE
            /\ Return
  /\ UNCHANGED <<cfgVars, ctlVars, bindVars, exc, opVars, calls, commits,
                 cbWrote, cmtCnt, raised, wDisabled, connected, decorated,
                 acDone, dirty, commit_depth, held, thrVars, histVars, leVars, dnVars>>

\* auto_commit.checkbox_toggled
CheckboxToggled ==
  /\ Running("checkbox_toggled")
  /\ cbRuns' = cbRuns + 1
  /\ IF Truthy(attr)
       THEN /\ btnEnabled' = FALSE
            /\ IF dirty THEN Replace(<<Frame("do_commit", None)>>) ELSE Return
       ELSE /\ btnEnabled' = TRUE
            /\ Return
  /\ UNCHANGED <<cfgVars, ctlVars, bindVars, exc, opVars, calls, commits,
                 cbWrote, cmtCnt, raised, wDisabled, connected, decorated,
                 acDone, dirty, commit_depth, held, thrVars, histVars, leVars, dnVars>>

\* a conditional_commit that does not look at the auto-commit flag
ConditionalCommitAlways ==
  /\ Running("conditional_commit")
  /\ Replace(<<Frame("do_commit", None)>>)
  /\ UNCHANGED <<cfgVars, ctlVars, bindVars, exc, opVars, cntVars, cmtCnt,
                 raised, wDisabled, commitVars, thrVars, histVars, leVars, dnVars>>

\* auto_commit.conditional_commit
ConditionalCommit ==
  /\ Running("conditional_commit")
  /\ IF Truthy(attr)
       THEN Replace(<<Frame("do_commit", None)>>) /\ UNCHANGED dirty
       ELSE dirty' = TRUE /\ Return
  /\ UNCHANGED <<cfgVars, ctlVars, bindVars, exc, opVars, cntVars, cmtCnt,
                 raised, wDisabled, connected, decorated, acDone, commit_depth,
                 btnEnabled, held, thrVars, histVars, leVars, dnVars>>

\* auto_commit.do_commit: commit.call() for a decorated method, else the
\* original commit; then set_dirty(False), skipped when the commit raises
DoCommit ==
  /\ Running("do_commit")
  /\ ran' = ran + 1
  /\ Replace(<<IF decorated THEN Frame("call", I(MaxSuper))
                            ELSE Frame("commit", I(0)),
               Frame("set_dirty", None)>>)
  /\ UNCHANGED <<cfgVars, ctlVars, bindVars, exc, opVars, cntVars, directCalls,
                 directRuns, commitRaised, raised, wDisabled, commitVars,
                 thrVars, histVars, leVars, dnVars>>

\* a do_commit that leaves the dirty flag as it is
SetDirtyKeeps ==
  /\ Running("set_dirty")
  /\ Return
  /\ UNCHANGED <<cfgVars, ctlVars, bindVars, exc, opVars, cntVars, cmtCnt,
                 raised, wDisabled, commitVars, thrVars, histVars, leVars, dnVars>>

\* set_dirty(False) in do_commit
SetDirtyFalse ==
  /\ Running("set_dirty")
  /\ dirty' = FALSE
  /\ Return
  /\ UNCHANGED <<cfgVars, ctlVars, bindVars, exc, opVars, cntVars, cmtCnt,
                 raised, wDisabled, connected, decorated, acDone, commit_depth,
                 btnEnabled, held, thrVars, histVars, leVars, dnVars>>

\* Deferred.call, up to the call of acting_func
Call ==
  /\ Running("call")
  /\ commit_depth' = commit_depth + 1
  /\ Replace(<<Frame("commit", Top.v), Frame("call_fin", None)>>)
  /\ UNCHANGED <<cfgVars, ctlVars, bindVars, exc, opVars, cntVars, cmtCnt,
                 raised, wDisabled, connected, decorated, acDone, dirty,
                 btnEnabled, held, thrVars, histVars, leVars, dnVars>>

\* Deferred.call with the decrement after the call instead of in `finally`
CallWithoutFinally ==
  /\ stack # <<>> /\ Top.pc = "call_fin"
  /\ commit_depth' = IF exc THEN commit_depth ELSE commit_depth - 1
  /\ Return
  /\ UNCHANGED <<cfgVars, ctlVars, bindVars, exc, opVars, cntVars, cmtCnt,
                 raised, wDisabled, connected, decorated, acDone, dirty,
                 btnEnabled, held, thrVars, histVars, leVars, dnVars>>

\* the `finally` of Deferred.call; it also runs while an exception propagates
CallFinally ==
  /\ stack # <<>> /\ Top.pc = "call_fin"
  /\ commit_depth' = commit_depth - 1
  /\ Return
  /\ UNCHANGED <<cfgVars, ctlVars, bindVars, exc, opVars, cntVars, cmtCnt,
                 raised, wDisabled, connected, decorated, acDone, dirty,
                 btnEnabled, held, thrVars, histVars, leVars, dnVars>>

\* Deferred.__call__: the decorated method is called directly
DirectCallBody ==
  /\ Running("direct")
  /\ directCalls' = directCalls + 1
  /\ IF commit_depth # 0
       THEN /\ directRuns' = directRuns + 1
            /\ Replace(<<Frame("call", Top.v)>>)
            /\ UNCHANGED exc
       ELSE /\ exc' = TRUE
            /\ Return
            /\ UNCHANGED directRuns
  /\ UNCHANGED <<cfgVars, ctlVars, bindVars, opVars, cntVars, ran, commitRaised,
                 raised, wDisabled, commitVars, thrVars, histVars, leVars, dnVars>>

\* The original commit method (the widget's code): it returns, it raises, or
\* a decorated override calls super().commit() first.
CommitReturns ==
  /\ Running("commit")
  /\ Return
  /\ UNCHANGED <<cfgVars, ctlVars, bindVars, exc, opVars, cntVars, cmtCnt,
                 raised, wDisabled, commitVars, thrVars, histVars, leVars, dnVars>>

CommitRaises ==
  /\ Running("commit")
  /\ exc' = TRUE
  /\ commitRaised' = TRUE
  /\ failed' = TRUE
  /\ Return
  /\ UNCHANGED <<cfgVars, ctlVars, bindVars, opVars, cntVars, ran, directCalls,
                 directRuns, raised, wDisabled, commitVars, thrVars, wrote, leVars, dnVars>>

CommitCallsSuper ==
  /\ Running("commit")
  /\ decorated /\ Top.v.i > 0
  /\ Replace(<<Frame("direct", I(Top.v.i - 1))>>)
  /\ UNCHANGED <<cfgVars, ctlVars, bindVars, exc, opVars, cntVars, cmtCnt,
                 raised, wDisabled, commitVars, thrVars, histVars, leVars, dnVars>>

\* The lambda Deferred.__getattribute__ returns for `now` and `deferred`
\* while auto_commit has not set them: it looks data.<key> up when called;
\* calling None raises TypeError.
Installed(key) == IF key = "now" THEN "do_commit" ELSE "conditional_commit"
\* a thunk that calls the value data.<key> had when the thunk was made: None
ThunkBoundEarly ==
  /\ Running("thunk")
  /\ exc' = TRUE /\ Return
  /\ UNCHANGED <<cfgVars, ctlVars, bindVars, opVars, cntVars, cmtCnt, raised,
                 wDisabled, commitVars, thrVars, histVars, leVars, dnVars>>

Thunk ==
  /\ Running("thunk")
  /\ IF acDone
       THEN Replace(<<Frame(Installed(Top.v.s), None)>>) /\ UNCHANGED exc
       ELSE exc' = TRUE /\ Return
  /\ UNCHANGED <<cfgVars, ctlVars, bindVars, opVars, cntVars, cmtCnt, raised,
                 wDisabled, commitVars, thrVars, histVars, leVars, dnVars>>

(***************************************************************************)
(* The operations on a widget with an auto-commit box.                     *)
(***************************************************************************)
ThunkKeys == {"now", "deferred"}

\* commit.now or commit.deferred is read before auto_commit has run
GetThunk ==
  /\ Quiet /\ decorated /\ ~acDone
  /\ \E key \in ThunkKeys \ held : held' = held \cup {key}
  /\ UNCHANGED <<cfgVars, ctlVars, bindVars, stack, exc, opVars, cntVars,
                 cmtCnt, raised, wDisabled, connected, decorated, acDone,
                 dirty, commit_depth, btnEnabled, thrVars, histVars, leVars, dnVars>>

\* a reference obtained by GetThunk is called
InvokeThunk ==
  /\ Quiet
  /\ \E key \in held :
       /\ Begin("thunk", S(key))
       /\ stack' = <<Frame("thunk", S(key))>>
  /\ UNCHANGED <<cfgVars, ctlVars, bindVars, exc, wDisabled, commitVars,
                 thrVars, histVars, leVars, dnVars>>

\* gui.auto_commit: set_dirty(False), the check box is built showing the
\* attribute and connected, checkbox_toggled() sets the button (nothing is
\* dirty), and conditional_commit and do_commit are installed.
AutoCommit ==
  /\ Quiet /\ ~acDone
  /\ attr \in Bools
  /\ Begin("auto_commit", attr)
  /\ dirty' = FALSE
  /\ shown' = Display(attr)
  /\ connected' = TRUE
  /\ btnEnabled' = ~Truthy(attr)
  /\ acDone' = TRUE
  /\ wrote' = FALSE /\ failed' = FALSE
  /\ UNCHANGED <<cfgVars, attr, bindVars, stack, exc, wDisabled, decorated,
                 commit_depth, held, thrVars, leVars, dnVars>>

\* commit.deferred(), or master.commit() of an undecorated method
CallDeferred ==
  /\ Quiet /\ acDone
  /\ Begin("deferred", None)
  /\ stack' = <<Frame("conditional_commit", None)>>
  /\ UNCHANGED <<cfgVars, ctlVars, bindVars, exc, wDisabled, commitVars,
                 thrVars, histVars, leVars, dnVars>>

\* commit.now()
CallNow ==
  /\ Quiet /\ acDone /\ decorated
  /\ Begin("now", None)
  /\ stack' = <<Frame("do_commit", None)>>
  /\ UNCHANGED <<cfgVars, ctlVars, bindVars, exc, wDisabled, commitVars,
                 thrVars, histVars, leVars, dnVars>>

\* the user clicks the commit button: clicked is connected to do_commit
ClickButton ==
  /\ Quiet /\ acDone /\ btnEnabled
  /\ Begin("click", None)
  /\ stack' = Slot("do_commit", None)
  /\ UNCHANGED <<cfgVars, ctlVars, bindVars, exc, wDisabled, commitVars,
                 thrVars, histVars, leVars, dnVars>>

\* the widget's code calls the decorated method itself: self.commit()
DirectCall ==
  /\ Quiet /\ decorated
  /\ Begin("direct", None)
  /\ stack' = <<Frame("direct", I(MaxSuper))>>
  /\ UNCHANGED <<cfgVars, ctlVars, bindVars, exc, wDisabled, commitVars,
                 thrVars, histVars, leVars, dnVars>>

InitCommit ==
  /\ kind = "check"
  /\ callback = "checkbox_toggled"
  /\ func = "none"
  /\ attr \in Bools
  /\ shown = I(0) /\ editStart = I(0)
  /\ InitIdle
  /\ wDisabled = <<>>
  /\ connected = FALSE
  /\ decorated \in BOOLEAN
  /\ acDone = FALSE
  /\ dirty = FALSE /\ commit_depth = 0
  /\ btnEnabled = FALSE /\ held = {}
  /\ NoThreads
  /\ NoFocusOut
  /\ InitNotification

StepCommit ==
  \/ SetAttr \/ CallFront \/ CallFrontFinally \/ Action \/ SlotEnd
  \/ CallBack \/ CallBackFinally \/ FunctionCallback \/ Disabler
  \/ Unwind \/ RaiseToCaller
  \/ CheckboxToggled \/ ConditionalCommit \/ DoCommit \/ SetDirtyFalse
  \/ Call \/ CallFinally \/ DirectCallBody
  \/ CommitReturns \/ CommitRaises \/ CommitCallsSuper \/ Thunk

NextCommit ==
  \/ StepCommit
  \/ WriteAttr \/ UserToggle
  \/ GetThunk \/ InvokeThunk \/ AutoCommit
  \/ CallDeferred \/ CallNow \/ ClickButton \/ DirectCall

SpecCommit == InitCommit /\ [][NextCommit]_vars

(***************************************************************************)
(* Claims about auto_commit and @deferred.                                 *)
(***************************************************************************)
\* what conditional_commit is to do, by the auto-commit flag: the original
\* commit is executed, once; or it is not executed and the dirty flag is set
ConditionalDone ==
  IF Truthy(attr) THEN ran = 1 ELSE ran = 0 /\ dirty
\* what do_commit is to do: the original commit is executed once, and the
\* dirty flag is cleared when it returns
UnconditionalDone == ran = 1 /\ (commitRaised \/ ~dirty)

\* C4: after auto_commit, once a call of the replaced commit (commit.deferred
\* of a decorated method, master.commit of an undecorated one) has returned
\* or raised, the original commit was executed if the auto-commit flag is on,
\* and otherwise it was not executed and the dirty flag is set.
C4_ConditionalCommit ==
  (stack = <<>> /\ op.k = "deferred") => ConditionalDone

C4_Witness ==
  /\ Quiet /\ op.k = "deferred" /\ Truthy(attr) /\ ran = 1 /\ dirty0 /\ ~dirty
  /\ ~commitRaised

\* the auto-commit flag was switched by the last operation, the user's
\* toggling of the check box or a write of the attribute by the program
SwitchDone == Quiet /\ acDone /\ op.k \in {"user", "write"}
SwitchedOn == Truthy(attr) /\ ~Truthy(attr0)
\* the original commit was called exactly once and the dirty flag is clear
\* (unless the commit raised) if the flag was switched on with the dirty flag
\* set; otherwise the commit was not called
SwitchOutcome ==
  IF SwitchedOn /\ dirty0
    THEN ran = 1 /\ (commitRaised \/ ~dirty)
    ELSE ran = 0 /\ dirty = dirty0

C6_DirectCallRaisesOutsideCommit ==
  /\ (stack = <<>>) => commit_depth = 0
  /\ (Quiet /\ op.k = "direct")
       => (raised /\ directCalls = 1 /\ directRuns = 0 /\ ran = 0)
  /\ (op.k # "direct") => directRuns = directCalls

C6_Witness ==
  /\ Quiet /\ op.k = "direct" /\ raised /\ acDone /\ directRuns = 0

\* C7: a commit.deferred or commit.now thunk obtained before auto_commit and
\* called after it does what conditional_commit, respectively do_commit,
\* does.
C7_ThunkIsInstalledFunction ==
  (stack = <<>> /\ ~exc /\ op.k = "thunk" /\ acDone)
    => IF op.v = S("deferred")
         THEN ConditionalDone /\ (raised <=> commitRaised)
         ELSE UnconditionalDone /\ (raised <=> commitRaised)

C7_Witness ==
  /\ Quiet /\ op.k = "thunk" /\ op.v = S("deferred") /\ acDone
  /\ ~Truthy(attr) /\ dirty /\ ~dirty0 /\ ran = 0 /\ ~raised

NThreads == 2
MaxCommits == 2
Threads == 1..NThreads

AllIdle == \A t \in Threads : tpc[t] = "idle"

thrRest == <<cfgVars, ctlVars, bindVars, stack, exc, opVars, cntVars, ran,
             commitRaised, wDisabled, connected, decorated, acDone, dirty,
             btnEnabled, held, histVars, leVars, dnVars>>

\* thread t calls commit.now(): do_commit enters Deferred.call
ThreadCallNow(t) ==
  /\ tpc[t] = "idle" /\ tleft[t] > 0
  /\ tleft' = [tleft EXCEPT ![t] = @ - 1]
  /\ tpc' = [tpc EXCEPT ![t] = "call"]
  /\ UNCHANGED <<thrRest, commit_depth, ttmp, directCalls, directRuns, raised>>

\* thread t calls the decorated method directly: Deferred.__call__
ThreadDirectCall(t) ==
  /\ tpc[t] = "idle" /\ tleft[t] > 0
  /\ tleft' = [tleft EXCEPT ![t] = @ - 1]
  /\ directCalls' = directCalls + 1
  /\ IF commit_depth # 0
       THEN /\ tpc' = [tpc EXCEPT ![t] = "call"]
            /\ directRuns' = directRuns + 1
            /\ UNCHANGED raised
       ELSE /\ raised' = TRUE
            /\ UNCHANGED <<tpc, directRuns>>
  /\ UNCHANGED <<thrRest, commit_depth, ttmp>>

\* data.commit_depth += 1: the load
ThreadLoadInc(t) ==
  /\ tpc[t] = "call"
  /\ ttmp' = [ttmp EXCEPT ![t] = commit_depth]
  /\ tpc' = [tpc EXCEPT ![t] = "inc"]
  /\ UNCHANGED <<thrRest, commit_depth, tleft, directCalls, directRuns, raised>>

\* data.commit_depth += 1: the store
ThreadStoreInc(t) ==
  /\ tpc[t] = "inc"
  /\ commit_depth' = ttmp[t] + 1
  /\ tpc' = [tpc EXCEPT ![t] = "commit"]
  /\ UNCHANGED <<thrRest, ttmp, tleft, directCalls, directRuns, raised>>

\* acting_func(instance) runs and ends
ThreadCommit(t) ==
  /\ tpc[t] = "commit"
  /\ tpc' = [tpc EXCEPT ![t] = "finally"]
  /\ UNCHANGED <<thrRest, commit_depth, ttmp, tleft, directCalls, directRuns,
                 raised>>

\* data.commit_depth -= 1: the load
ThreadLoadDec(t) ==
  /\ tpc[t] = "finally"
  /\ ttmp' = [ttmp EXCEPT ![t] = commit_depth]
  /\ tpc' = [tpc EXCEPT ![t] = "dec"]
  /\ UNCHANGED <<thrRest, commit_depth, tleft, directCalls, directRuns, raised>>

\* data.commit_depth -= 1: the store
ThreadStoreDec(t) ==
  /\ tpc[t] = "dec"
  /\ commit_depth' = ttmp[t] - 1
  /\ tpc' = [tpc EXCEPT ![t] = "idle"]
  /\ UNCHANGED <<thrRest, ttmp, tleft, directCalls, directRuns, raised>>

\* a widget with a decorated commit, after auto_commit
InitThreads ==
  /\ kind = "check"
  /\ callback = "checkbox_toggled"
  /\ func = "none"
  /\ attr \in Bools
  /\ shown = Display(attr) /\ editStart = shown
  /\ InitIdle
  /\ wDisabled = <<>>
  /\ connected = TRUE
  /\ decorated = TRUE
  /\ acDone = TRUE
  /\ dirty = FALSE /\ commit_depth = 0
  /\ btnEnabled = ~Truthy(attr) /\ held = {}
  /\ tpc = [t \in Threads |-> "idle"]
  /\ ttmp = [t \in Threads |-> 0]
  /\ tleft = [t \in Threads |-> MaxCommits]
  /\ NoFocusOut
  /\ InitNotification

NextThreads ==
  \E t \in Threads :
    \/ ThreadCallNow(t) \/ ThreadDirectCall(t)
    \/ ThreadLoadInc(t) \/ ThreadStoreInc(t) \/ ThreadCommit(t)
    \/ ThreadLoadDec(t) \/ ThreadStoreDec(t)

SpecThreads == InitThreads /\ [][NextThreads]_vars

\* C8: with commits invoked from several threads, commit_depth is 0 whenever
\* no thread is inside a commit, so that a direct call made then raises.
C8_DepthBackAtZero == AllIdle => commit_depth = 0

(***************************************************************************)
(* LineEditWFocusOut, as gui.lineEdit builds it for a callback without     *)
(* callbackOnType (or for a focusInCallback): connectControl gets no       *)
(* function and connects textChanged to the value call-back, which is also *)
(* stored in ledit.cback.                                                  *)
(***************************************************************************)
leRest == <<cfgVars, guardVars, spinVars, editStart, disVars, commitVars,
            thrVars, histVars, wfo, leCallback, dnVars>>

\* the user types or deletes: Qt emits textChanged, then textEdited, which
\* is connected to __textEdited
UserEdits ==
  /\ Quiet /\ wfo /\ focused
  /\ \E s \in Texts :
       /\ S(s) # shown
       /\ shown' = S(s)
       /\ Begin("type", S(s))
       /\ stack' = SignalSlots(S(s))
  /\ changed' = TRUE
  /\ edited' = TRUE
  /\ edited0' = edited
  /\ UNCHANGED <<leRest, attr, exc, focused>>

\* focusInEvent, without a focusInCallback
FocusIn ==
  /\ Quiet /\ wfo /\ ~focused
  /\ Begin("focusin", shown)
  /\ focused' = TRUE
  /\ changed' = FALSE
  /\ edited' = FALSE
  /\ edited0' = edited
  /\ UNCHANGED <<leRest, ctlVars, stack, exc>>

\* focusOutEvent
FocusOut ==
  /\ Quiet /\ wfo /\ focused
  /\ Begin("focusout", shown)
  /\ focused' = FALSE
  /\ edited0' = edited
  /\ stack' = Slot("callback_if_changed", None)
  /\ UNCHANGED <<leRest, ctlVars, exc, changed, edited>>

\* returnPressed is connected to returnPressedHandler
ReturnPressed ==
  /\ Quiet /\ wfo /\ focused
  /\ Begin("return", shown)
  /\ edited0' = edited
  /\ stack' = Slot("callback_if_changed", None)
  /\ UNCHANGED <<leRest, ctlVars, exc, changed, focused, edited>>

\* the program calls ledit.setText: LineEditWFocusOut.setText, and Qt emits
\* textChanged when the text changes
SetText ==
  /\ Quiet /\ wfo
  /\ \E s \in Texts :
       /\ shown' = S(s)
       /\ Begin("settext", S(s))
       /\ stack' = IF S(s) # shown THEN SignalSlots(S(s)) ELSE <<>>
  /\ changed' = FALSE
  /\ edited' = FALSE
  /\ edited0' = edited
  /\ UNCHANGED <<leRest, attr, exc, focused>>

\* a __callback_if_changed that leaves __changed set
CallbackIfChangedKeepsFlag ==
  /\ Running("callback_if_changed")
  /\ IF changed
       THEN Replace(<<Frame("cback", shown)>>
                    \o (IF leCallback THEN <<Frame("le_callback", None)>>
                        ELSE <<>>))
       ELSE Return
  /\ UNCHANGED <<leRest, ctlVars, exc, opVars, cntVars, cmtCnt, raised,
                 changed, focused, edited, edited0>>

\* LineEditWFocusOut.__callback_if_changed
CallbackIfChanged ==
  /\ Running("callback_if_changed")
  /\ IF changed
       THEN /\ changed' = FALSE
            /\ Replace(<<Frame("cback", shown)>>
                       \o (IF leCallback THEN <<Frame("le_callback", None)>>
                           ELSE <<>>))
       ELSE Return /\ UNCHANGED changed
  /\ UNCHANGED <<leRest, ctlVars, exc, opVars, cntVars, cmtCnt, raised,
                 focused, edited, edited0>>

\* self.callback(): the user's callback returns, or writes the attribute
LeCallbackReturns ==
  /\ Running("le_callback")
  /\ cbRuns' = cbRuns + 1
  /\ edited' = FALSE
  /\ Return
  /\ UNCHANGED <<leRest, ctlVars, exc, opVars, calls, commits, cbWrote,
                 cmtCnt, raised, changed, focused, edited0>>

LeCallbackWrites ==
  /\ Running("le_callback")
  /\ cbRuns' = cbRuns + 1
  /\ cbWrote' = TRUE
  /\ edited' = FALSE
  /\ \E w \in WriteVals : Replace(<<Frame("setattr", w)>>)
  /\ UNCHANGED <<leRest, ctlVars, exc, opVars, calls, commits, cmtCnt, raised,
                 changed, focused, edited0>>

InitFocusOut ==
  /\ kind = "line"
  /\ callback = "none"
  /\ InitControl
  /\ NoCommit
  /\ NoThreads
  /\ wfo = TRUE
  /\ leCallback \in BOOLEAN
  /\ changed = FALSE /\ focused = FALSE
  /\ edited = FALSE /\ edited0 = FALSE
  /\ InitNotification

StepFocusOut ==
  \/ SetAttr \/ CallFront \/ Action \/ SlotEnd \/ CallBack \/ CallBackFinally
  \/ Unwind \/ CallbackIfChanged \/ LeCallbackReturns \/ LeCallbackWrites

NextFocusOut ==
  \/ StepFocusOut
  \/ WriteAttr \/ UserEdits \/ FocusIn \/ FocusOut \/ ReturnPressed \/ SetText

SpecFocusOut == InitFocusOut /\ [][NextFocusOut]_vars

\* C11: once the handlers of the user's typing into a LineEditWFocusOut have
\* returned, the master's attribute holds the value it had before.
C11_TypingKeepsAttribute ==
  (Quiet /\ wfo /\ op.k = "type") => attr = attr0

\* C12: the callback runs at most once in an operation, only at a focus-out
\* or a Return, and then only if the user has edited the text since the last
\* focus-in, programmatic setText or callback; a setText, an attribute write,
\* a focus-in and the typing itself run no callback.
LeaveOps == {"focusout", "return"}
C12_CallbackOnlyAfterEdit ==
  /\ cbRuns <= 1
  /\ (op.k \in LeaveOps /\ cbRuns = 1) => edited0
  /\ (op.k \notin LeaveOps) => cbRuns = 0

C12_Witness ==
  /\ Quiet /\ op.k = "focusout" /\ cbRuns = 1 /\ edited0 /\ ~edited
  /\ ~changed /\ ~focused /\ ~cbWrote /\ shown = S("x")

(***************************************************************************)
(* DelayedNotification.  `notification.emit()` is the last statement of    *)
(* notify_immediately, so what a connected slot calls runs after the whole *)
(* of it, as the next operation does.                                      *)
(***************************************************************************)
MaxArg == 2
\* the args tuple of a `changed` call: no, one or two arguments
Args(a) == [t |-> "args", a |-> a]
ArgVals ==
  {Args(<<>>)} \cup {Args(<<n>>) : n \in 1..MaxArg}
    \cup {Args(<<n, m>>) : n \in 1..MaxArg, m \in 1..MaxArg}

dnRest == <<cfgVars, ctlVars, guardVars, stack, exc, spinVars, opVars, cntVars,
            cmtCnt, editStart, raised, disVars, commitVars, thrVars, histVars,
            leVars>>

\* DelayedNotification.changed
Changed ==
  /\ \E v \in ArgVals : last_value' = v
  /\ timerActive' = TRUE
  /\ UNCHANGED <<dnRest, did_notify, last_notified, sent, emitted>>

\* a notify_immediately that does not remember what it notified
NotifyForgetful ==
  /\ timerActive' = FALSE
  /\ did_notify' = TRUE
  /\ sent' = <<last_value>> \o (IF sent = <<>> THEN <<>> ELSE <<sent[1]>>)
  /\ emitted' = TRUE
  /\ UNCHANGED <<dnRest, last_value, last_notified>>

\* DelayedNotification.notify_immediately
Notify ==
  /\ timerActive' = FALSE
  /\ IF did_notify /\ last_notified = last_value
       THEN /\ emitted' = FALSE
            /\ UNCHANGED <<did_notify, last_notified, sent>>
       ELSE /\ last_notified' = last_value
            /\ did_notify' = TRUE
            /\ sent' = <<last_value>>
                       \o (IF sent = <<>> THEN <<>> ELSE <<sent[1]>>)
            /\ emitted' = TRUE
  /\ UNCHANGED <<dnRest, last_value>>

\* the timer's timeout signal is connected to notify_immediately
TimerFires == timerActive /\ Notify
\* the program calls notify_immediately itself
NotifyImmediately == ~timerActive /\ Notify

InitNotify ==
  /\ kind = "check"
  /\ callback = "none"
  /\ InitControl
  /\ NoCommit
  /\ NoThreads
  /\ NoFocusOut
  /\ InitNotification

NextNotify == Changed \/ TimerFires \/ NotifyImmediately

SpecNotify == InitNotify /\ [][NextNotify]_vars

\* C13: two consecutive emissions of `notification` never carry equal
\* arguments; and after every notify_immediately, whether it emitted or not,
\* the arguments last passed to `changed` are those of the latest emission:
\* it emits nothing only when they equal those of the previous emission.
C13_NoEqualConsecutiveEmissions ==
  /\ (Len(sent) = 2) => sent[1] # sent[2]
  /\ (did_notify /\ ~timerActive) => (sent # <<>> /\ sent[1] = last_value)
  /\ emitted => did_notify

\* a second emission, with other arguments than the first
C13_Witness ==
  /\ Len(sent) = 2 /\ emitted /\ ~timerActive
  /\ sent[1] = Args(<<1>>) /\ sent[2] = Args(<<2>>)

====
